---- MODULE Spec2Model ----
(***************************************************************************)
(* Elara: lowering of the AST to commands and the tree-walking evaluation  *)
(* of commands against a Context (interpreter/command.go), with the prefix *)
(* parselets that produce literal AST nodes (parser/prefix_parslet.go).    *)
(* The Context, the Type system, Function.Exec and the batch driver are    *)
(* not part of the sources at hand; they follow the written design.        *)
(***************************************************************************)
EXTENDS Integers, Sequences, FiniteSets, TLC

\* ------------------------------------------------------------------ bounds
\* number of top-level statements of one batch
MaxStmts == 2
\* largest integer literal of the statement universe
MaxInt == 2

\* ------------------------------------------------------------------ values
NoError == "none"

\* Go's nil *Value: the result of a command that yields no value
Nil == [Type |-> "nil"]

IntType == "Int"
FloatType == "Float"
BooleanType == "Boolean"
StringType == "String"
AnyType == "Any"

\* the Type a function value is carried in
FunctionType(name, fun) == "Function"

IntValue(n) == [Type |-> IntType, Value |-> n]
FloatValue(f) == [Type |-> FloatType, Value |-> f]

\* Type.Accepts: nominal equality, or the accepting Type is Any
Accepts(a, b) == a = AnyType \/ a = b

\* ------------------------------------------------------------------ commands
AbstractCommand(content) == [content |-> content, kind |-> "Abstract"]
LiteralCommand(value) == [kind |-> "Literal", value |-> value]
VariableCommand(name) == [kind |-> "Variable", Variable |-> name]
BinaryOperatorCommand(lhs, op, rhs) ==
    [kind |-> "BinaryOperator", lhs |-> lhs, op |-> op, rhs |-> rhs]

\* the member-function table of each Type: Int registers f(x), which
\* returns the receiver plus x
TypeFunctions(type) ==
    IF type = IntType
    THEN "f" :> [Signature |-> [Parameters |-> <<[Type |-> AnyType, Name |-> "x"]>>,
                                ReturnType |-> IntType],
                 Body |-> BinaryOperatorCommand(AbstractCommand("receiver"), "Add",
                                                VariableCommand("x"))]
    ELSE <<>>

\* ------------------------------------------------------------------ Context
\* A Context is the chain of frames from the root (first) to the current
\* frame (last); a frame's parent is the frame before it.
NewFrame(parameters, receiver) ==
    [receiver |-> receiver, parameters |-> parameters, variables |-> <<>>]

NewContext == <<NewFrame(<<>>, Nil)>>

\* creates (or overwrites) the Variable in the current frame
DefineVariable(ctx, name, variable) ==
    [ctx EXCEPT ![Len(ctx)].variables = (name :> variable) @@ @]

\* the innermost frame holding a Variable of that name, 0 when none does
FindVariable(ctx, name) ==
    LET S == {i \in 1..Len(ctx) : name \in DOMAIN ctx[i].variables}
    IN IF S = {} THEN 0 ELSE CHOOSE i \in S : \A j \in S : j <= i

\* the active call's binding of that parameter, Nil when it has none
FindParameter(ctx, name) ==
    IF name \in DOMAIN ctx[Len(ctx)].parameters
    THEN ctx[Len(ctx)].parameters[name]
    ELSE Nil

\* ------------------------------------------------------------------ evaluation
\* The outcome of Exec: the Context as the command left it, the value it
\* returned, the error it panicked with, the kinds of the commands started
\* in order (a panic appends "panic"), and the function calls made.
Return(ctx, val, trace, calls) ==
    [ctx |-> ctx, val |-> val, trace |-> trace, calls |-> calls, err |-> NoError]

Panic(ctx, err, trace, calls) ==
    [ctx |-> ctx, val |-> Nil, trace |-> trace \o <<"panic">>, calls |-> calls,
     err |-> err]

\* the outcome r of a sub-command, seen from the command that ran it after
\* `trace` and `calls`: its value is returned, its panic unwinds
Unwind(r, trace, calls) ==
    [r EXCEPT !.trace = trace \o r.trace, !.calls = calls \o r.calls]

RECURSIVE Exec(_, _)
RECURSIVE ExecArgs(_, _)
RECURSIVE ExecLines(_, _, _)

\* DefineVar returning the value it bound instead of nothing
DefineVarReturnsValue(c, ctx) ==
    LET r == Exec(c.value, ctx)
        tr == <<"DefineVar">> \o r.trace
    IN IF r.err # NoError THEN Unwind(r, <<"DefineVar">>, <<>>)
       ELSE IF r.val = Nil THEN Panic(r.ctx, "NilDereference", tr, r.calls)
       ELSE IF ~Accepts(c.Type, r.val.Type)
            THEN Panic(r.ctx, "TypeMismatch", tr, r.calls)
       ELSE Return(DefineVariable(r.ctx, c.Name,
                       [Type |-> c.Type, Value |-> r.val,
                        Name |-> c.Name, Mutable |-> c.Mutable]),
                   r.val, tr, r.calls)

\* DefineVar creating the Variable before it checks the Type
DefineVarChecksLate(c, ctx) ==
    LET r == Exec(c.value, ctx)
        tr == <<"DefineVar">> \o r.trace
        defined == DefineVariable(r.ctx, c.Name,
                       [Type |-> c.Type, Value |-> r.val,
                        Name |-> c.Name, Mutable |-> c.Mutable])
    IN IF r.err # NoError THEN Unwind(r, <<"DefineVar">>, <<>>)
       ELSE IF r.val = Nil THEN Panic(r.ctx, "NilDereference", tr, r.calls)
       ELSE IF ~Accepts(c.Type, r.val.Type)
            THEN Panic(defined, "TypeMismatch", tr, r.calls)
       ELSE Return(defined, Nil, tr, r.calls)

DefineVarCommandExec(c, ctx) ==
    LET r == Exec(c.value, ctx)
        tr == <<"DefineVar">> \o r.trace
    IN IF r.err # NoError THEN Unwind(r, <<"DefineVar">>, <<>>)
       ELSE IF r.val = Nil THEN Panic(r.ctx, "NilDereference", tr, r.calls)
       ELSE IF ~Accepts(c.Type, r.val.Type)
            THEN Panic(r.ctx, "TypeMismatch", tr, r.calls)
       ELSE Return(DefineVariable(r.ctx, c.Name,
                       [Type |-> c.Type, Value |-> r.val,
                        Name |-> c.Name, Mutable |-> c.Mutable]),
                   Nil, tr, r.calls)

\* Assign without the Type check
AssignmentUnchecked(c, ctx) ==
    LET at == FindVariable(ctx, c.Name)
    IN IF at = 0 THEN Panic(ctx, "UndefinedVariable", <<"Assignment">>, <<>>)
       ELSE IF ~ctx[at].variables[c.Name].Mutable
            THEN Panic(ctx, "ImmutableAssignment", <<"Assignment">>, <<>>)
       ELSE LET r == Exec(c.value, ctx)
                tr == <<"Assignment">> \o r.trace
            IN IF r.err # NoError THEN Unwind(r, <<"Assignment">>, <<>>)
               ELSE IF r.val = Nil
                    THEN Panic(r.ctx, "NilDereference", tr, r.calls)
               ELSE Return([r.ctx EXCEPT ![at].variables[c.Name].Value = r.val],
                           Nil, tr, r.calls)

\* Assign evaluating the new value before it checks mutability
AssignmentEvaluatesFirst(c, ctx) ==
    LET at == FindVariable(ctx, c.Name)
        r == Exec(c.value, ctx)
        tr == <<"Assignment">> \o r.trace
    IN IF at = 0 THEN Panic(ctx, "UndefinedVariable", <<"Assignment">>, <<>>)
       ELSE IF r.err # NoError THEN Unwind(r, <<"Assignment">>, <<>>)
       ELSE IF ~ctx[at].variables[c.Name].Mutable
            THEN Panic(r.ctx, "ImmutableAssignment", tr, r.calls)
       ELSE IF r.val = Nil THEN Panic(r.ctx, "NilDereference", tr, r.calls)
       ELSE IF ~Accepts(r.ctx[at].variables[c.Name].Type, r.val.Type)
            THEN Panic(r.ctx, "TypeMismatch", tr, r.calls)
       ELSE Return([r.ctx EXCEPT ![at].variables[c.Name].Value = r.val],
                   Nil, tr, r.calls)

AssignmentCommandExec(c, ctx) ==
    LET at == FindVariable(ctx, c.Name)
    IN IF at = 0 THEN Panic(ctx, "UndefinedVariable", <<"Assignment">>, <<>>)
       ELSE IF ~ctx[at].variables[c.Name].Mutable
            THEN Panic(ctx, "ImmutableAssignment", <<"Assignment">>, <<>>)
       ELSE LET r == Exec(c.value, ctx)
                tr == <<"Assignment">> \o r.trace
            IN IF r.err # NoError THEN Unwind(r, <<"Assignment">>, <<>>)
               ELSE IF r.val = Nil
                    THEN Panic(r.ctx, "NilDereference", tr, r.calls)
               ELSE IF ~Accepts(r.ctx[at].variables[c.Name].Type, r.val.Type)
                    THEN Panic(r.ctx, "TypeMismatch", tr, r.calls)
               ELSE Return([r.ctx EXCEPT ![at].variables[c.Name].Value = r.val],
                           Nil, tr, r.calls)

VariableCommandExec(c, ctx) ==
    LET at == FindVariable(ctx, c.Variable)
    IN IF at = 0
       THEN LET param == FindParameter(ctx, c.Variable)
            IN IF param = Nil
               THEN Panic(ctx, "UndefinedVariable", <<"Variable">>, <<>>)
               ELSE Return(ctx, param, <<"Variable">>, <<>>)
       ELSE Return(ctx, ctx[at].variables[c.Variable].Value, <<"Variable">>, <<>>)

\* Function.Exec: arity check, arguments evaluated in order in the Context
\* handed in, a fresh frame on that Context binding the parameters and the
\* receiver, the body run in it, the frame discarded
FunctionExec(fun, ctx, receiver, args) ==
    LET params == fun.Signature.Parameters
    IN IF Len(args) # Len(params) THEN Panic(ctx, "ArityMismatch", <<>>, <<>>)
       ELSE LET a == ExecArgs(args, ctx)
            IN IF a.err # NoError THEN a
               ELSE LET names == {params[i].Name : i \in 1..Len(params)}
                        last(n) == CHOOSE i \in 1..Len(params) :
                                      /\ params[i].Name = n
                                      /\ \A j \in 1..Len(params) :
                                            params[j].Name = n => j <= i
                        bound == [n \in names |-> a.val[last(n)]]
                        b == Exec(fun.Body, Append(a.ctx, NewFrame(bound, receiver)))
                        call == [receiver |-> receiver, parameters |-> bound,
                                 err |-> b.err, function |-> fun,
                                 frame |-> Len(a.ctx) + 1,
                                 locals |-> b.ctx[Len(a.ctx) + 1].variables,
                                 result |-> b.val]
                    IN [ctx |-> SubSeq(b.ctx, 1, Len(ctx)), val |-> b.val,
                        trace |-> a.trace \o b.trace,
                        calls |-> a.calls \o <<call>> \o b.calls, err |-> b.err]

ContextCommandExec(c, ctx) ==
    LET r == Exec(c.receiver, ctx)
        tr == <<"Context">> \o r.trace
    IN IF r.err # NoError THEN Unwind(r, <<"Context">>, <<>>)
       ELSE IF r.val = Nil THEN Panic(r.ctx, "NilDereference", tr, r.calls)
       ELSE IF c.variable \notin DOMAIN TypeFunctions(r.val.Type)
            THEN Panic(r.ctx, "UndefinedMember", tr, r.calls)
       ELSE LET function == TypeFunctions(r.val.Type)[c.variable]
            IN Return(r.ctx, [Type |-> FunctionType(c.variable, function),
                              Value |-> function], tr, r.calls)

InvocationCommandExec(c, ctx) ==
    LET isContext == c.Invoking.kind = "Context"
        v == Exec(c.Invoking, ctx)
        tr1 == <<"Invocation">> \o v.trace
    IN IF v.err # NoError THEN Unwind(v, <<"Invocation">>, <<>>)
       ELSE IF v.val = Nil THEN Panic(v.ctx, "NilDereference", tr1, v.calls)
       ELSE IF v.val.Type # "Function"
            THEN Panic(v.ctx, "NotInvokable", tr1, v.calls)
       ELSE IF ~isContext
            THEN Unwind(FunctionExec(v.val.Value, v.ctx, Nil, c.args), tr1, v.calls)
       ELSE LET receiver == Exec(c.Invoking.receiver, v.ctx)
                tr2 == tr1 \o receiver.trace
                cl2 == v.calls \o receiver.calls
            IN IF receiver.err # NoError THEN Unwind(receiver, tr1, v.calls)
               ELSE IF receiver.val = Nil
                    THEN Panic(receiver.ctx, "NilDereference", tr2, cl2)
               ELSE IF c.Invoking.variable \notin DOMAIN TypeFunctions(receiver.val.Type)
                    THEN Panic(receiver.ctx, "UndefinedMember", tr2, cl2)
               ELSE LET function == TypeFunctions(receiver.val.Type)[c.Invoking.variable]
                        exec == Exec(c.Invoking.receiver, receiver.ctx)
                    IN IF exec.err # NoError THEN Unwind(exec, tr2, cl2)
                       ELSE Unwind(FunctionExec(function, exec.ctx, exec.val, c.args),
                                   tr2 \o exec.trace, cl2 \o exec.calls)

\* the native content of an AbstractCommand: read the frame's receiver
AbstractCommandExec(c, ctx) ==
    Return(ctx, ctx[Len(ctx)].receiver, <<"Abstract">>, <<>>)

LiteralCommandExec(c, ctx) == Return(ctx, c.value, <<"Literal">>, <<>>)

\* Go's integer division truncates toward zero
\* the int64 an integer wraps around to
Int64(n) ==
    IF -1000000000 < n /\ n < 1000000000 THEN n
    ELSE ((n + 2^63) % 2^64) - 2^63

GoDiv(a, b) ==
    LET abs(x) == IF x < 0 THEN -x ELSE x
        q == abs(a) \div abs(b)
    IN Int64(IF (a < 0) # (b < 0) THEN -q ELSE q)

\* the closure a binary operator is lowered to
BinaryOp(op, ctx, lhs, rhs, trace, calls) ==
    IF lhs = Nil THEN Panic(ctx, "NilDereference", trace, calls)
    ELSE IF lhs.Type # IntType THEN Panic(ctx, "OperandTypeError", trace, calls)
    ELSE IF rhs = Nil THEN Panic(ctx, "NilDereference", trace, calls)
    ELSE IF rhs.Type # IntType THEN Panic(ctx, "OperandTypeError", trace, calls)
    ELSE IF op = "Slash" /\ rhs.Value = 0
         THEN Panic(ctx, "DivideByZero", trace, calls)
    ELSE Return(ctx,
                IntValue(CASE op = "Add" -> Int64(lhs.Value + rhs.Value)
                           [] op = "Subtract" -> Int64(lhs.Value - rhs.Value)
                           [] op = "Multiply" -> Int64(lhs.Value * rhs.Value)
                           [] op = "Slash" -> GoDiv(lhs.Value, rhs.Value)),
                trace, calls)

BinaryOperatorCommandExec(c, ctx) ==
    LET l == Exec(c.lhs, ctx)
    IN IF l.err # NoError THEN Unwind(l, <<"BinaryOperator">>, <<>>)
       ELSE LET r == Exec(c.rhs, l.ctx)
                tr == <<"BinaryOperator">> \o l.trace
            IN IF r.err # NoError THEN Unwind(r, tr, l.calls)
               ELSE BinaryOp(c.op, r.ctx, l.val, r.val, tr \o r.trace,
                             l.calls \o r.calls)

BlockCommandExec(c, ctx) ==
    Unwind(ExecLines(c.lines, ctx, Nil), <<"Block">>, <<>>)

IfElseCommandExec(c, ctx) ==
    LET r == Exec(c.condition, ctx)
        tr == <<"IfElse">> \o r.trace
    IN IF r.err # NoError THEN Unwind(r, <<"IfElse">>, <<>>)
       ELSE IF r.val = Nil THEN Panic(r.ctx, "NilDereference", tr, r.calls)
       ELSE IF r.val.Type # BooleanType
            THEN Panic(r.ctx, "ConditionTypeError", tr, r.calls)
       ELSE IF r.val.Value THEN Unwind(Exec(c.ifBranch, r.ctx), tr, r.calls)
       ELSE IF c.elseBranch.kind # "nil"
            THEN Unwind(Exec(c.elseBranch, r.ctx), tr, r.calls)
       ELSE Return(r.ctx, Nil, tr, r.calls)

Exec(c, ctx) ==
    CASE c.kind = "DefineVar" -> DefineVarCommandExec(c, ctx)
      [] c.kind = "Assignment" -> AssignmentCommandExec(c, ctx)
      [] c.kind = "Variable" -> VariableCommandExec(c, ctx)
      [] c.kind = "Invocation" -> InvocationCommandExec(c, ctx)
      [] c.kind = "Abstract" -> AbstractCommandExec(c, ctx)
      [] c.kind = "Literal" -> LiteralCommandExec(c, ctx)
      [] c.kind = "BinaryOperator" -> BinaryOperatorCommandExec(c, ctx)
      [] c.kind = "Block" -> BlockCommandExec(c, ctx)
      [] c.kind = "Context" -> ContextCommandExec(c, ctx)
      [] c.kind = "IfElse" -> IfElseCommandExec(c, ctx)

\* the argument commands of a call, evaluated in order; val is the
\* sequence of their values
ExecArgs(args, ctx) ==
    IF args = <<>> THEN Return(ctx, <<>>, <<>>, <<>>)
    ELSE LET h == Exec(Head(args), ctx)
         IN IF h.err # NoError THEN h
            ELSE LET t == ExecArgs(Tail(args), h.ctx)
                 IN [t EXCEPT !.val = IF t.err # NoError THEN Nil
                                     ELSE <<h.val>> \o t.val,
                              !.trace = h.trace \o t.trace,
                              !.calls = h.calls \o t.calls]

\* the loop of a Block going on to the next line after a line panicked
RECURSIVE ExecLinesKeepsGoing(_, _, _)
ExecLinesKeepsGoing(lines, ctx, last) ==
    IF lines = <<>> THEN Return(ctx, last, <<>>, <<>>)
    ELSE LET h == Exec(Head(lines), ctx)
         IN Unwind(ExecLinesKeepsGoing(Tail(lines), h.ctx, h.val), h.trace, h.calls)

\* the loop of BlockCommand.Exec: each line in order, the last value kept
ExecLines(lines, ctx, last) ==
    IF lines = <<>> THEN Return(ctx, last, <<>>, <<>>)
    ELSE LET h == Exec(Head(lines), ctx)
         IN IF h.err # NoError THEN h
            ELSE Unwind(ExecLines(Tail(lines), h.ctx, h.val), h.trace, h.calls)

\* ------------------------------------------------------------------ parser
\* initPrefixParselets: the parselet registered for each token type
prefixParslets ==
    [t \in {"Identifier", "LSquare", "LBrace", "BinaryInt", "OctalInt",
            "HexadecimalInt", "DecimalInt", "Float", "Char", "String", "LParen",
            "BooleanTrue", "BooleanFalse", "Subtract", "Not", "If"} |->
        CASE t = "Identifier" -> "parseIdentifier"
          [] t = "LSquare" -> "parseCollection"
          [] t = "LBrace" -> "parseMap"
          [] t \in {"BinaryInt", "OctalInt", "HexadecimalInt", "DecimalInt"}
               -> "parseInteger"
          [] t = "Float" -> "parseFloat"
          [] t = "Char" -> "parseChar"
          [] t = "String" -> "parseString"
          [] t = "LParen" -> "functionGroupResolver"
          [] t \in {"BooleanTrue", "BooleanFalse"} -> "parseBoolean"
          [] t \in {"Subtract", "Not"} -> "parseUnaryExpression"
          [] t = "If" -> "parseIfExpression"]

baseOf(tokenType) ==
    CASE tokenType = "HexadecimalInt" -> 16
      [] tokenType = "DecimalInt" -> 10
      [] tokenType = "OctalInt" -> 8
      [] tokenType = "BinaryInt" -> 2
      [] OTHER -> -1

Digits == <<"0", "1", "2", "3", "4", "5", "6", "7", "8", "9">>
Letters == <<"a", "b", "c", "d", "e", "f", "g", "h", "i", "j", "k", "l", "m",
             "n", "o", "p", "q", "r", "s", "t", "u", "v", "w", "x", "y", "z">>
Capitals == <<"A", "B", "C", "D", "E", "F", "G", "H", "I", "J", "K", "L", "M",
              "N", "O", "P", "Q", "R", "S", "T", "U", "V", "W", "X", "Y", "Z">>

\* the index of ch in the sequence of characters, 0 when it is not in it
IndexOf(chars, ch) ==
    IF \E i \in 1..Len(chars) : chars[i] = ch
    THEN CHOOSE i \in 1..Len(chars) : chars[i] = ch
    ELSE 0

\* strconv's lower(c) on a letter; any other character is left alone
Lower(ch) == IF IndexOf(Capitals, ch) > 0 THEN Letters[IndexOf(Capitals, ch)] ELSE ch

\* string(token.Data): the text the characters of a token make up
RECURSIVE String(_)
String(data) == IF data = <<>> THEN "" ELSE Head(data) \o String(Tail(data))

\* the value strconv gives a digit character: 0-9, then a-z and A-Z as
\* 10-35; -1 for any other character
DigitValue(ch) ==
    IF IndexOf(Digits, ch) > 0 THEN IndexOf(Digits, ch) - 1
    ELSE IF IndexOf(Letters, Lower(ch)) > 0 THEN IndexOf(Letters, Lower(ch)) + 9
    ELSE -1

\* the loop of strconv.ParseUint: one character at a time, a character
\* that is no digit of the base is a syntax error and a digit that takes the
\* number past the largest uint64 is a range error, whichever comes first
RECURSIVE ParseUintLoop(_, _, _)
ParseUintLoop(data, base, n) ==
    IF data = <<>> THEN [value |-> n, err |-> NoError]
    ELSE LET d == DigitValue(Head(data))
             fits == n < 1000000 \/ n * base + d < 2^64
         IN IF d < 0 \/ d >= base THEN [value |-> 0, err |-> "syntax"]
            ELSE IF ~fits THEN [value |-> 2^64 - 1, err |-> "range"]
            ELSE ParseUintLoop(Tail(data), base, n * base + d)

\* strconv.ParseUint(data, base, 64) for a base of 2..36
ParseUint(data, base) ==
    IF data = <<>> THEN [value |-> 0, err |-> "syntax"]
    ELSE ParseUintLoop(data, base, 0)

\* strconv.ParseInt(data, base, 64) for a base of 2..36: an optional sign,
\* then one or more digits of the base; the value must fit an int64
ParseInt(data, base) ==
    LET signed == data # <<>> /\ Head(data) \in {"+", "-"}
        neg == signed /\ Head(data) = "-"
        un == ParseUint(IF signed THEN Tail(data) ELSE data, base)
        fits == \/ un.value < 1000000
                \/ IF neg THEN un.value <= 2^63 ELSE un.value < 2^63
    IN IF data = <<>> \/ un.err = "syntax" THEN [value |-> 0, err |-> "syntax"]
       ELSE IF ~fits THEN [value |-> IF neg THEN -(2^63) ELSE 2^63 - 1,
                           err |-> "range"]
       ELSE [value |-> IF neg THEN -un.value ELSE un.value, err |-> NoError]

SyntaxError == [kind |-> "SyntaxError"]

parseInteger(token) ==
    LET base == baseOf(token.TokenType)
        parsed == ParseInt(token.Data, base)
    IN IF base < 2 THEN SyntaxError
       ELSE IF parsed.err # NoError THEN SyntaxError
       ELSE [Value |-> parsed.value, kind |-> "IntegerLiteralExpr"]

RECURSIVE GCD(_, _)
GCD(a, b) == IF b = 0 THEN a ELSE GCD(b, a % b)

\* a float64, named by the number it is the nearest float64 to: num / den
\* in lowest terms, with den = 0 for an infinity (num = 1) and NaN (num = 0)
Float(negative, num, den) ==
    LET g == GCD(num, den)
    IN [negative |-> negative,
        num |-> IF g = 0 THEN 0 ELSE num \div g,
        den |-> IF g = 0 THEN 0 ELSE den \div g]

\* the text in lower case
LowerAll(data) == [i \in 1..Len(data) |-> Lower(data[i])]

\* strconv's special: the texts of the infinities and of NaN
IsInfinity(data) ==
    LET signed == data # <<>> /\ Head(data) \in {"+", "-"}
        rest == LowerAll(IF signed THEN Tail(data) ELSE data)
    IN rest \in {<<"i", "n", "f">>, <<"i", "n", "f", "i", "n", "i", "t", "y">>}
IsNaN(data) == LowerAll(data) = <<"n", "a", "n">>

\* strconv's underscoreOK: an underscore only separates digits, the base
\* prefix counting as a digit
RECURSIVE UnderscoreRun(_, _, _, _)
UnderscoreRun(s, i, hex, saw) ==
    IF i > Len(s) THEN saw # "_"
    ELSE IF \/ IndexOf(Digits, s[i]) > 0
            \/ hex /\ DigitValue(s[i]) \in 10..15
         THEN UnderscoreRun(s, i + 1, hex, "0")
    ELSE IF s[i] = "_"
         THEN saw = "0" /\ UnderscoreRun(s, i + 1, hex, "_")
    ELSE saw # "_" /\ UnderscoreRun(s, i + 1, hex, "!")

underscoreOK(data) ==
    LET s == IF data # <<>> /\ Head(data) \in {"+", "-"} THEN Tail(data) ELSE data
        prefixed == /\ Len(s) >= 2
                    /\ s[1] = "0"
                    /\ Lower(s[2]) \in {"b", "o", "x"}
    IN IF prefixed THEN UnderscoreRun(s, 3, Lower(s[2]) = "x", "0")
       ELSE UnderscoreRun(s, 1, FALSE, "^")

\* the end of the mantissa that starts at i: the index after the longest
\* run of digits of the base, underscores and at most one point
RECURSIVE MantissaEnd(_, _, _, _)
MantissaEnd(s, i, hex, sawdot) ==
    IF i > Len(s) THEN i
    ELSE IF s[i] = "_" THEN MantissaEnd(s, i + 1, hex, sawdot)
    ELSE IF s[i] = "." THEN IF sawdot THEN i ELSE MantissaEnd(s, i + 1, hex, TRUE)
    ELSE IF IndexOf(Digits, s[i]) > 0 \/ (hex /\ DigitValue(s[i]) \in 10..15)
         THEN MantissaEnd(s, i + 1, hex, sawdot)
    ELSE i

\* the end of the exponent digits that start at i
RECURSIVE ExponentEnd(_, _)
ExponentEnd(s, i) ==
    IF i <= Len(s) /\ (IndexOf(Digits, s[i]) > 0 \/ s[i] = "_")
    THEN ExponentEnd(s, i + 1)
    ELSE i

\* the exponent the digits name; strconv stops adding digits at 10000
RECURSIVE ExponentValue(_, _)
ExponentValue(digits, e) ==
    IF digits = <<>> THEN e
    ELSE IF Head(digits) = "_" \/ e >= 10000 THEN ExponentValue(Tail(digits), e)
    ELSE ExponentValue(Tail(digits), e * 10 + DigitValue(Head(digits)))

\* the number the digits of a mantissa name in the base
RECURSIVE MantissaValue(_, _, _)
MantissaValue(digits, base, n) ==
    IF digits = <<>> THEN n
    ELSE MantissaValue(Tail(digits), base, n * base + DigitValue(Head(digits)))

\* the characters of s from index i up to, not including, index j
Slice(s, i, j) == SubSeq(s, i, j - 1)
\* the sequence without its underscores and points
OnlyDigits(s) == SelectSeq(s, LAMBDA ch : ch \notin {"_", "."})
\* the number of digits after the point
FractionDigits(s) ==
    IF IndexOf(s, ".") = 0 THEN 0
    ELSE Len(OnlyDigits(Slice(s, IndexOf(s, ".") + 1, Len(s) + 1)))

\* strconv's readFloat on the whole text: [sign] [0x] mantissa [exponent],
\* the exponent after e for a decimal and, required, after p for a
\* hexadecimal mantissa. ok tells whether the whole text is a number.
readFloat(data) ==
    LET neg == data # <<>> /\ Head(data) = "-"
        p == IF data # <<>> /\ Head(data) \in {"+", "-"} THEN 2 ELSE 1
        hex == /\ p + 2 <= Len(data)
               /\ data[p] = "0"
               /\ Lower(data[p + 1]) = "x"
        m0 == IF hex THEN p + 2 ELSE p
        m1 == MantissaEnd(data, m0, hex, FALSE)
        mantissa == Slice(data, m0, m1)
        sawdigits == OnlyDigits(mantissa) # <<>>
        sawexp == m1 <= Len(data) /\ Lower(data[m1]) = (IF hex THEN "p" ELSE "e")
        esigned == sawexp /\ m1 + 1 <= Len(data) /\ data[m1 + 1] \in {"+", "-"}
        e0 == IF esigned THEN m1 + 2 ELSE m1 + 1
        e1 == ExponentEnd(data, e0)
        expok == e0 <= Len(data) /\ IndexOf(Digits, data[e0]) > 0
        e == ExponentValue(Slice(data, e0, e1), 0)
        end == IF sawexp THEN e1 ELSE m1
        ok == /\ p <= Len(data)
              /\ sawdigits
              /\ IF sawexp THEN expok ELSE ~hex
              /\ end = Len(data) + 1
              /\ (IndexOf(data, "_") > 0 => underscoreOK(data))
    IN IF ~ok THEN [ok |-> FALSE]
       ELSE [neg |-> neg, hex |-> hex,
             mantissa |-> MantissaValue(OnlyDigits(mantissa),
                                        IF hex THEN 16 ELSE 10, 0),
             ok |-> TRUE,
             exp |-> (IF esigned /\ data[m1 + 1] = "-" THEN -e ELSE e)
                     - (IF hex THEN 4 ELSE 1) * FractionDigits(mantissa)]

\* strconv.ParseFloat(data, 64): the float64 nearest to the number the text
\* names, an error when the text is no number or the float64 is infinite
ParseFloat(data) ==
    IF IsInfinity(data)
    THEN [value |-> Float(Head(data) = "-", 1, 0), err |-> NoError]
    ELSE IF IsNaN(data) THEN [value |-> Float(FALSE, 0, 0), err |-> NoError]
    ELSE LET r == readFloat(data)
             base == IF r.hex THEN 2 ELSE 10
             num == IF r.exp >= 0 THEN r.mantissa * base^(r.exp) ELSE r.mantissa
             den == IF r.exp >= 0 THEN 1 ELSE base^(-r.exp)
             \* the numbers from 2^1024 - 2^970 on round to an infinity
             finite == \/ num < 1000000 * den
                       \/ num < (2^1024 - 2^970) * den
         IN IF ~r.ok THEN [value |-> Float(FALSE, 0, 1), err |-> "syntax"]
            ELSE IF ~finite THEN [value |-> Float(r.neg, 1, 0), err |-> "range"]
            ELSE [value |-> Float(r.neg, num, den), err |-> NoError]

parseFloat(token) ==
    LET parsed == ParseFloat(token.Data)
    IN IF parsed.err # NoError THEN SyntaxError
       ELSE [Value |-> parsed.value, kind |-> "FloatLiteralExpr"]

parseBoolean(token) ==
    [Value |-> token.TokenType = "BooleanTrue", kind |-> "BooleanLiteralExpr"]

parseChar(token) == [Value |-> token.Data[1], kind |-> "CharLiteral"]

parseString(token) == [Value |-> String(token.Data), kind |-> "StringLiteralExpr"]

parseIdentifier(token) ==
    [kind |-> "VariableExpr", Identifier |-> String(token.Data)]

\* the prefix step of parseExpression for a one-token expression
parsePrefix(token) ==
    IF token.TokenType \notin DOMAIN prefixParslets THEN SyntaxError
    ELSE LET parslet == prefixParslets[token.TokenType]
         IN CASE parslet = "parseInteger" -> parseInteger(token)
              [] parslet = "parseFloat" -> parseFloat(token)
              [] parslet = "parseBoolean" -> parseBoolean(token)
              [] parslet = "parseChar" -> parseChar(token)
              [] parslet = "parseString" -> parseString(token)
              [] parslet = "parseIdentifier" -> parseIdentifier(token)
              [] OTHER -> SyntaxError

\* ------------------------------------------------------------------ lowering
\* an absent annotation
NoType == "none"
\* Go's nil *Type
NilType == "nil"

\* the Type an annotation names; nil when there is no annotation
FromASTType(t) == IF t = NoType THEN NilType ELSE t

\* a nil Stmt (no else branch) and a nil Command
NoStmt == [kind |-> "nil"]
NilCommand == [kind |-> "nil"]

\* a panic of the lowering: errs holds every panic the build may raise for
\* the node, more than one where Go leaves the order of evaluation open
Failed(errs) == [kind |-> "Panic", errs |-> errs]
IsFailed(c) == c.kind = "Panic"

\* the index of the first failure among lowered commands, 0 when none failed
FirstFailed(commands) ==
    LET bad == {i \in 1..Len(commands) : IsFailed(commands[i])}
    IN IF bad = {} THEN 0 ELSE CHOOSE i \in bad : \A j \in bad : i <= j

RECURSIVE ToCommand(_)
RECURSIVE ExpressionToCommand(_)

\* case parser.FuncDefExpr
FuncDefExprToCommand(t) ==
    LET n == Len(t.Arguments)
        paramTypes == [i \in 1..n |-> FromASTType(t.Arguments[i].Type)]
        returnType == FromASTType(t.ReturnType)
    IN IF \E i \in 1..n : paramTypes[i] = NilType THEN Failed({"NilDereference"})
       ELSE LET body == ToCommand(t.Statement)
                fun == [Signature |->
                           [Parameters |->
                               [i \in 1..n |-> [Type |-> paramTypes[i],
                                                Name |-> t.Arguments[i].Name]],
                            ReturnType |-> returnType],
                        Body |-> body]
            \* *returnType and ToCommand(t.Statement) are operands of one
            \* composite literal: when both panic, either may come first
            IN IF returnType = NilType /\ IsFailed(body)
               THEN Failed({"NilDereference"} \cup body.errs)
               ELSE IF returnType = NilType THEN Failed({"NilDereference"})
               ELSE IF IsFailed(body) THEN body
               ELSE LiteralCommand([Type |-> FunctionType(NilType, fun),
                                    Value |-> fun])

\* case parser.BinaryExpr
BinaryExprToCommand(t) ==
    LET lhsCmd == ExpressionToCommand(t.Lhs)
        rhsCmd == ExpressionToCommand(t.Rhs)
    IN IF IsFailed(lhsCmd) THEN lhsCmd
       ELSE IF IsFailed(rhsCmd) THEN rhsCmd
       ELSE IF t.Op \in {"Add", "Subtract", "Multiply", "Slash"}
            THEN BinaryOperatorCommand(lhsCmd, t.Op, rhsCmd)
       ELSE Failed({"UnsupportedNode"})

\* case parser.VarDefStmt
VarDefStmtToCommand(t) ==
    LET Type == IF FromASTType(t.Type) = NilType THEN AnyType
                ELSE FromASTType(t.Type)
        valueExpr == ExpressionToCommand(t.Value)
    IN IF IsFailed(valueExpr) THEN valueExpr
       ELSE [Type |-> Type, kind |-> "DefineVar", value |-> valueExpr,
             Name |-> t.Identifier, Mutable |-> t.Mutable]

ToCommand(statement) ==
    \* a nil Stmt matches no case, and reflect.TypeOf(nil).Name() is a nil
    \* dereference
    CASE statement.kind = "nil" -> Failed({"NilDereference"})
      [] statement.kind = "VarDefStmt" -> VarDefStmtToCommand(statement)
      [] statement.kind = "ExpressionStmt" -> ExpressionToCommand(statement.Expr)
      [] statement.kind = "BlockStmt" ->
            LET commands == [i \in 1..Len(statement.Stmts) |->
                                ToCommand(statement.Stmts[i])]
            IN IF FirstFailed(commands) # 0 THEN commands[FirstFailed(commands)]
               ELSE [kind |-> "Block", lines |-> commands]
      [] statement.kind = "IfElseStmt" ->
            LET condition == ExpressionToCommand(statement.Condition)
                ifBranch == ToCommand(statement.MainBranch)
                elseBranch == IF statement.ElseBranch.kind # "nil"
                              THEN ToCommand(statement.ElseBranch)
                              ELSE NilCommand
            IN IF IsFailed(condition) THEN condition
               ELSE IF IsFailed(ifBranch) THEN ifBranch
               ELSE IF IsFailed(elseBranch) THEN elseBranch
               ELSE [kind |-> "IfElse", condition |-> condition,
                     ifBranch |-> ifBranch, elseBranch |-> elseBranch]
      [] OTHER -> Failed({"UnsupportedNode"})

ExpressionToCommand(expr) ==
    \* a nil Expr, as a nil Stmt
    CASE expr.kind = "nil" -> Failed({"NilDereference"})
      [] expr.kind = "VariableExpr" -> VariableCommand(expr.Identifier)
      [] expr.kind = "InvocationExpr" ->
            LET fun == ExpressionToCommand(expr.Invoker)
                args == [i \in 1..Len(expr.Args) |->
                            ExpressionToCommand(expr.Args[i])]
            IN IF IsFailed(fun) THEN fun
               ELSE IF FirstFailed(args) # 0 THEN args[FirstFailed(args)]
               ELSE [kind |-> "Invocation", args |-> args, Invoking |-> fun]
      [] expr.kind = "StringLiteralExpr" ->
            LiteralCommand([Type |-> StringType, Value |-> expr.Value])
      [] expr.kind = "IntegerLiteralExpr" ->
            LiteralCommand([Type |-> IntType, Value |-> expr.Value])
      [] expr.kind = "FloatLiteralExpr" ->
            LiteralCommand([Type |-> FloatType, Value |-> expr.Value])
      [] expr.kind = "BooleanLiteralExpr" ->
            LiteralCommand([Type |-> BooleanType, Value |-> expr.Value])
      [] expr.kind = "BinaryExpr" -> BinaryExprToCommand(expr)
      [] expr.kind = "FuncDefExpr" -> FuncDefExprToCommand(expr)
      [] expr.kind = "ContextExpr" ->
            LET contextCmd == ExpressionToCommand(expr.Context)
            IN IF IsFailed(contextCmd) THEN contextCmd
               ELSE [kind |-> "Context", receiver |-> contextCmd,
                     variable |-> expr.Variable.Identifier]
      [] expr.kind = "AssignmentExpr" ->
            LET valueCmd == ExpressionToCommand(expr.Value)
            IN IF IsFailed(valueCmd) THEN valueCmd
               ELSE [kind |-> "Assignment", value |-> valueCmd,
                     Name |-> expr.Identifier]
      [] OTHER -> Failed({"UnsupportedNode"})

\* ------------------------------------------------------------------ statements
\* The statements a batch is drawn from, as the parser hands them to the
\* lowering.
Token(type, data) == [TokenType |-> type, Data |-> data]

IntLit(n) == parseInteger(Token("DecimalInt", <<Digits[n + 1]>>))
FloatLit == parseFloat(Token("Float", <<"3", ".", "5">>))
BoolLit(b) == parseBoolean(Token(IF b THEN "BooleanTrue" ELSE "BooleanFalse", <<>>))
Ref(name) == parseIdentifier(Token("Identifier", <<name>>))

ExpressionStmt(e) == [kind |-> "ExpressionStmt", Expr |-> e]
VarDefStmt(name, mutable, type, value) ==
    [Type |-> type, Value |-> value, kind |-> "VarDefStmt",
     Mutable |-> mutable, Identifier |-> name]
BlockStmt(stmts) == [kind |-> "BlockStmt", Stmts |-> stmts]
IfElseStmt(condition, main, else) ==
    [kind |-> "IfElseStmt", Condition |-> condition, MainBranch |-> main,
     ElseBranch |-> else]
BinaryExpr(lhs, op, rhs) == [kind |-> "BinaryExpr", Lhs |-> lhs, Rhs |-> rhs, Op |-> op]
InvocationExpr(invoker, args) ==
    [kind |-> "InvocationExpr", Invoker |-> invoker, Args |-> args]
ContextExpr(context, name) ==
    [kind |-> "ContextExpr", Variable |-> Ref(name), Context |-> context]
AssignmentExpr(name, value) ==
    [Value |-> value, kind |-> "AssignmentExpr", Identifier |-> name]
FuncDefExpr(arguments, returnType, statement) ==
    [kind |-> "FuncDefExpr", ReturnType |-> returnType, Arguments |-> arguments,
     Statement |-> statement]

Names == <<"a", "b">>
Annotations == <<NoType, IntType>>

\* () : Any => a
ReadA == FuncDefExpr(<<>>, AnyType, ExpressionStmt(Ref("a")))
\* () : Any => { let a = 2 ; b() }
CallB == FuncDefExpr(<<>>, AnyType,
            BlockStmt(<<VarDefStmt("a", FALSE, NoType, IntLit(2)),
                        ExpressionStmt(InvocationExpr(Ref("b"), <<>>))>>))
\* (x : Any) : Any => x
Identity == FuncDefExpr(<<[Type |-> AnyType, Name |-> "x"]>>, AnyType,
                        ExpressionStmt(Ref("x")))
\* (x) : Any => x
Unannotated == FuncDefExpr(<<[Type |-> NoType, Name |-> "x"]>>, AnyType,
                           ExpressionStmt(Ref("x")))
\* () => 'c'
NoReturnType == FuncDefExpr(<<>>, NoType,
                            ExpressionStmt(parseChar(Token("Char", <<"c">>))))
\* (() : Any => { a = a + 1 ; a })()
BumpA == InvocationExpr(
            FuncDefExpr(<<>>, AnyType,
                BlockStmt(<<ExpressionStmt(AssignmentExpr("a",
                                BinaryExpr(Ref("a"), "Add", IntLit(1)))),
                            ExpressionStmt(Ref("a"))>>)),
            <<>>)

\* (() : Any => { let t = a ; a = 3.5 ; t })()
TakeA == InvocationExpr(
            FuncDefExpr(<<>>, AnyType,
                BlockStmt(<<VarDefStmt("t", FALSE, NoType, Ref("a")),
                            ExpressionStmt(AssignmentExpr("a", FloatLit)),
                            ExpressionStmt(Ref("t"))>>)),
            <<>>)

\* (() : Any => { a = a + 1 ; 3.5 })()
BumpAFloat == InvocationExpr(
                FuncDefExpr(<<>>, AnyType,
                    BlockStmt(<<ExpressionStmt(AssignmentExpr("a",
                                    BinaryExpr(Ref("a"), "Add", IntLit(1)))),
                                ExpressionStmt(FloatLit)>>)),
                <<>>)

\* the values of a var-definition
DefValues == [i \in 1..MaxInt |-> IntLit(i)] \o <<FloatLit, ReadA, BumpAFloat>>
\* the new values of an assignment
NewValues == <<IntLit(MaxInt), FloatLit, BinaryExpr(Ref("a"), "Add", IntLit(1)),
               BumpAFloat>>
\* one-token expression statements
LiteralTokens ==
    [i \in 1..(MaxInt + 1) |-> Token("DecimalInt", <<Digits[i]>>)]
    \o <<Token("BinaryInt", <<"1", "0">>), Token("BinaryInt", <<"2">>),
         Token("Float", <<"3", ".", "5">>), Token("BooleanTrue", <<>>),
         Token("Char", <<"c">>), Token("String", <<"h", "i">>),
         Token("Identifier", <<"a">>), Token("Identifier", <<"b">>)>>
Operators == <<"Add", "Subtract", "Multiply", "Slash", "Equals">>
Lefts == <<Ref("a"), BinaryExpr(IntLit(0), "Subtract", IntLit(1))>>
Rights == <<IntLit(0), IntLit(MaxInt)>>
Callees == <<Ref("b"), CallB, Identity, Unannotated, NoReturnType>>
Arguments == <<<<>>, <<IntLit(1)>>>>
Receivers == <<Ref("a"), FloatLit, BumpA, TakeA>>
Members == <<"f", "g">>
MemberArguments == <<<<IntLit(MaxInt)>>, <<FloatLit>>>>
Lines == <<VarDefStmt("a", FALSE, NoType, IntLit(1)),
           VarDefStmt("b", TRUE, IntType, FloatLit),
           ExpressionStmt(Ref("a"))>>
Blocks == <<<<>>>> \o [i \in 1..Len(Lines) |-> <<Lines[i]>>]
          \o [k \in 1..(Len(Lines) * Len(Lines)) |->
                 <<Lines[((k - 1) \div Len(Lines)) + 1],
                   Lines[((k - 1) % Len(Lines)) + 1]>>]
Conditions == <<BoolLit(TRUE), BoolLit(FALSE), Ref("a")>>
ElseBranches == <<NoStmt, ExpressionStmt(IntLit(2))>>

\* ------------------------------------------------------------------ batch run
VARIABLES
    ctx,        \* the root Context of the run
    results,    \* the result of each completed top-level statement, in order
    status,     \* "running", or "aborted" once a statement panicked
    error,      \* the error the run aborted with
    program,    \* the top-level statements run so far, in order
    last        \* the statement run last: the Context it ran in and what it did

vars == <<ctx, results, status, error, program, last>>

Init ==
    /\ ctx = NewContext
    /\ results = <<>>
    /\ status = "running"
    /\ error = NoError
    /\ program = <<>>
    /\ last = [val |-> Nil, trace |-> <<>>, calls |-> <<>>, pre |-> NewContext]

\* one turn of the batch loop: lower the next top-level statement and run
\* it against the root Context; a panic aborts the run
Execute(statement) ==
    /\ status = "running"
    /\ Len(program) < MaxStmts
    /\ ~(statement.kind = "ExpressionStmt" /\ statement.Expr.kind = "SyntaxError")
    /\ program' = Append(program, statement)
    /\ LET command == ToCommand(statement)
           r == Exec(command, ctx)
       IN IF IsFailed(command)
          THEN /\ status' = "aborted"
               /\ error' \in command.errs
               /\ last' = [val |-> Nil, trace |-> <<>>, calls |-> <<>>, pre |-> ctx]
               /\ UNCHANGED <<ctx, results>>
          ELSE /\ ctx' = r.ctx
               /\ last' = [val |-> r.val, trace |-> r.trace, calls |-> r.calls,
                           pre |-> ctx]
               /\ IF r.err = NoError
                  THEN /\ results' = Append(results, r.val)
                       /\ UNCHANGED <<status, error>>
                  ELSE /\ status' = "aborted"
                       /\ error' = r.err
                       /\ UNCHANGED results

ExecuteVarDef ==
    \E n \in 1..Len(Names), m \in BOOLEAN, t \in 1..Len(Annotations),
       v \in 1..Len(DefValues) :
        Execute(VarDefStmt(Names[n], m, Annotations[t], DefValues[v]))

ExecuteAssignment ==
    \E n \in 1..Len(Names), v \in 1..Len(NewValues) :
        Execute(ExpressionStmt(AssignmentExpr(Names[n], NewValues[v])))

ExecuteLiteral ==
    \E i \in 1..Len(LiteralTokens) :
        Execute(ExpressionStmt(parsePrefix(LiteralTokens[i])))

ExecuteBinary ==
    \E l \in 1..Len(Lefts), o \in 1..Len(Operators), r \in 1..Len(Rights) :
        Execute(ExpressionStmt(BinaryExpr(Lefts[l], Operators[o], Rights[r])))

ExecuteInvocation ==
    \E c \in 1..Len(Callees), a \in 1..Len(Arguments) :
        Execute(ExpressionStmt(InvocationExpr(Callees[c], Arguments[a])))

ExecuteMemberInvocation ==
    \E r \in 1..Len(Receivers), m \in 1..Len(Members),
       a \in 1..Len(MemberArguments) :
        Execute(ExpressionStmt(InvocationExpr(ContextExpr(Receivers[r], Members[m]),
                                              MemberArguments[a])))

ExecuteBlock ==
    \E b \in 1..Len(Blocks) : Execute(BlockStmt(Blocks[b]))

ExecuteIfElse ==
    \E c \in 1..Len(Conditions), e \in 1..Len(ElseBranches) :
        Execute(IfElseStmt(Conditions[c], ExpressionStmt(IntLit(1)), ElseBranches[e]))

Next ==
    \/ ExecuteVarDef
    \/ ExecuteAssignment
    \/ ExecuteLiteral
    \/ ExecuteBinary
    \/ ExecuteInvocation
    \/ ExecuteMemberInvocation
    \/ ExecuteBlock
    \/ ExecuteIfElse

Spec == Init /\ [][Next]_vars

\* ------------------------------------------------------------------ properties
\* the statement run last
Current == program[Len(program)]

IsIntValue(v, n) == v.Type = IntType /\ v.Value = n

\* let name [: Int] = <integer literal>
IsLetInt(s) ==
    /\ s.kind = "VarDefStmt"
    /\ s.Value.kind = "IntegerLiteralExpr"
    /\ s.Type \in {NoType, IntType}

\* name
IsRefOf(s, name) ==
    /\ s.kind = "ExpressionStmt"
    /\ s.Expr.kind = "VariableExpr"
    /\ s.Expr.Identifier = name

\* name = <expression>
IsAssign(s) == s.kind = "ExpressionStmt" /\ s.Expr.kind = "AssignmentExpr"

\* C1: the batch `let a = n` (or `let a: Int = n`) then `a`, run against a
\* fresh root Context, yields exactly the results [none, Int(n)].
C1_LetThenRead ==
    (/\ Len(program) >= 2
     /\ IsLetInt(program[1])
     /\ IsRefOf(program[2], program[1].Identifier))
    => /\ Len(results) >= 2
       /\ results[1] = Nil
       /\ IsIntValue(results[2], program[1].Value.Value)
       /\ Len(program) = 2 => (Len(results) = 2 /\ status = "running")

C1_Witness ==
    /\ Len(program) = 2
    /\ IsLetInt(program[1])
    /\ program[1].Type = IntType
    /\ IsRefOf(program[2], program[1].Identifier)
    /\ Len(results) = 2
    /\ IsIntValue(results[2], MaxInt)

\* the last statement was a var-definition whose value evaluated, in the
\* Context before it, to a Value its declared Type does not accept
MismatchedDefine ==
    /\ program # <<>>
    /\ Current.kind = "VarDefStmt"
    /\ LET c == ToCommand(Current)
           v == Exec(c.value, last.pre)
       IN /\ v.err = NoError
          /\ v.val # Nil
          /\ c.Type # AnyType
          /\ c.Type # v.val.Type

\* C2 as claimed: a DefineVar whose declared Type does not accept its value
\* fails with TypeMismatch, the failure makes no variable of that name
\* resolvable, and the Context is unchanged from before the DefineVar.
C2_Original ==
    MismatchedDefine
    => /\ status = "aborted"
       /\ error = "TypeMismatch"
       /\ FindVariable(last.pre, Current.Identifier) = 0
             => FindVariable(ctx, Current.Identifier) = 0
       /\ ctx = last.pre

\* C2 amended: such a DefineVar fails with TypeMismatch before the variable
\* is created: the Context is as the evaluation of the value command left
\* it, the failing DefineVar binds no name, the name is resolvable after
\* the failure only if it was before, and the Context is unchanged from
\* before the DefineVar when the value command is a literal.
C2_FailsBeforeCreate ==
    MismatchedDefine
    => /\ status = "aborted"
       /\ error = "TypeMismatch"
       /\ ctx = Exec(ToCommand(Current).value, last.pre).ctx
       /\ DOMAIN ctx[1].variables = DOMAIN last.pre[1].variables
       /\ FindVariable(last.pre, Current.Identifier) = 0
             => FindVariable(ctx, Current.Identifier) = 0
       /\ ToCommand(Current).value.kind = "Literal" => ctx = last.pre

C2_Witness ==
    /\ MismatchedDefine
    /\ Current.Type = IntType
    /\ Current.Value.kind = "FloatLiteralExpr"
    /\ error = "TypeMismatch"
    /\ FindVariable(ctx, Current.Identifier) = 0

\* the declared Type of every Variable accepts the Type of its Value
TypeAccepted(variables) ==
    \A n \in DOMAIN variables :
        \/ variables[n].Type = AnyType
        \/ variables[n].Type = variables[n].Value.Type

\* the statement holds a var-definition of that name for the frame it runs in
RECURSIVE Defines(_, _)
Defines(s, name) ==
    CASE s.kind = "VarDefStmt" -> s.Identifier = name
      [] s.kind = "BlockStmt" -> \E i \in 1..Len(s.Stmts) : Defines(s.Stmts[i], name)
      [] s.kind = "IfElseStmt" ->
            \/ Defines(s.MainBranch, name)
            \/ s.ElseBranch.kind # "nil" /\ Defines(s.ElseBranch, name)
      [] OTHER -> FALSE

\* C3: after any sequence of DefineVar and Assign commands, failing or not,
\* every Variable of every frame (the root, and the frame of every call at
\* its end) holds a Value whose Type its declared Type accepts (the same
\* Type, or the declared Type is Any), and a statement that does not define
\* a Variable anew leaves its declared Type and mutable flag as they were.
C3_TypedVariables ==
    /\ \A i \in 1..Len(ctx) : TypeAccepted(ctx[i].variables)
    /\ \A k \in 1..Len(last.calls) : TypeAccepted(last.calls[k].locals)
    /\ \A n \in DOMAIN ctx[1].variables \cap DOMAIN last.pre[1].variables :
          (\/ ctx[1].variables[n].Type # last.pre[1].variables[n].Type
           \/ ctx[1].variables[n].Mutable # last.pre[1].variables[n].Mutable)
          => Defines(Current, n)

C3_Witness ==
    /\ Len(program) = 2
    /\ IsAssign(Current)
    /\ status = "running"
    /\ program[1].kind = "VarDefStmt"
    /\ program[1].Type = IntType
    /\ program[1].Identifier = Current.Expr.Identifier
    /\ ctx[1].variables[Current.Expr.Identifier].Value
         # last.pre[1].variables[Current.Expr.Identifier].Value

\* the last statement was the assignment `target = <expression>`
Assigned == program # <<>> /\ IsAssign(Current)
Target == Current.Expr.Identifier
TargetAt == FindVariable(last.pre, Target)

\* the order of the checks of an Assign: lookup, mutability, evaluation of
\* the new value, Type
AssignOrder ==
    /\ TargetAt = 0
         => /\ status = "aborted"
            /\ error = "UndefinedVariable"
            /\ last.trace = <<"Assignment", "panic">>
            /\ ctx = last.pre
    /\ (TargetAt # 0 /\ ~last.pre[TargetAt].variables[Target].Mutable)
         => /\ status = "aborted"
            /\ error = "ImmutableAssignment"
            /\ last.trace = <<"Assignment", "panic">>
            /\ ctx = last.pre
    /\ (TargetAt # 0 /\ last.pre[TargetAt].variables[Target].Mutable)
         => LET v == Exec(ToCommand(Current).value, last.pre)
                declared == last.pre[TargetAt].variables[Target].Type
            IN /\ v.err # NoError => (status = "aborted" /\ error = v.err)
               /\ (/\ v.err = NoError
                   /\ v.val # Nil
                   /\ declared # AnyType
                   /\ declared # v.val.Type)
                    => /\ status = "aborted"
                       /\ error = "TypeMismatch"
                       /\ last.trace = <<"Assignment">> \o v.trace \o <<"panic">>

\* C4 as claimed: the checks of an Assign run in the order lookup,
\* mutability, evaluation, Type, so assigning to an immutable variable
\* fails with ImmutableAssignment without evaluating the new value, and a
\* failing Assign of any kind leaves the target's Value unchanged.
C4_Original ==
    Assigned
    => /\ AssignOrder
       /\ (TargetAt # 0 /\ status = "aborted")
            => ctx[TargetAt].variables[Target].Value
                 = last.pre[TargetAt].variables[Target].Value

\* C4 amended: the same order of checks; a failing Assign writes nothing
\* itself: the target's Value is as the evaluation of the new-value command
\* left it, which is its Value before the Assign when the failure is
\* UndefinedVariable or ImmutableAssignment (nothing was evaluated) or the
\* new-value command is a literal.
C4_AssignOrder ==
    Assigned
    => /\ AssignOrder
       /\ (TargetAt # 0 /\ status = "aborted")
            => /\ error = "ImmutableAssignment" => ctx = last.pre
               /\ ToCommand(Current).value.kind = "Literal" => ctx = last.pre
               /\ last.pre[TargetAt].variables[Target].Mutable
                    => ctx = Exec(ToCommand(Current).value, last.pre).ctx

C4_Witness ==
    /\ Assigned
    /\ Len(program) = 2
    /\ program[1].kind = "VarDefStmt"
    /\ program[1].Identifier = Target
    /\ ~program[1].Mutable
    /\ program[1].Value.kind = "IntegerLiteralExpr"
    /\ Current.Expr.Value.kind = "IntegerLiteralExpr"
    /\ error = "ImmutableAssignment"
    /\ IsIntValue(ctx[1].variables[Target].Value, program[1].Value.Value)

Count(seq, x) == Cardinality({i \in 1..Len(seq) : seq[i] = x})

\* a panic is the last thing its statement did, it aborts the run, and the
\* results are those of the statements completed before it
AbortedAtPanic ==
    /\ status \in {"running", "aborted"}
    /\ status = "aborted" <=> error # NoError
    /\ Count(last.trace, "panic") <= 1
    /\ Count(last.trace, "panic") = 1
         => status = "aborted" /\ last.trace[Len(last.trace)] = "panic"
    /\ status = "aborted" => Len(results) = Len(program) - 1
    /\ status = "running" => Len(results) = Len(program)

\* C5: once a command of the run fails the run is aborted for good: no
\* later command of the statement and no later statement executes, nothing
\* changes afterwards, the failing statement records no result, and the
\* results are exactly those of the statements completed before it.
C5_AbortIsFinal ==
    /\ []AbortedAtPanic
    /\ [][/\ status = "running"
          /\ SubSeq(results', 1, Len(results)) = results]_vars

C5_Witness ==
    /\ status = "aborted"
    /\ Len(program) = 2
    /\ Len(results) = 1
    /\ Current.kind = "BlockStmt"
    /\ Len(Current.Stmts) = 2
    /\ error = "TypeMismatch"
    /\ last.trace = <<"Block", "DefineVar", "Literal", "panic">>

\* the function values bound to Variables of the root frame
RootFunctions(context) ==
    {n \in DOMAIN context[1].variables :
        context[1].variables[n].Value.Type = "Function"}

\* C6: a function is run in a frame whose parent is the Context its literal
\* was defined in, not the Context of the call: a free name of the body of
\* a function defined at the root resolves to the root's binding of it
\* (and to nothing when the root has none), whatever the caller binds.
C6_Original ==
    \A k \in 1..Len(last.calls) :
        LET call == last.calls[k]
            body == call.function.Body
        IN (/\ body.kind = "Variable"
            /\ body.Variable \notin DOMAIN call.parameters
            /\ \E n \in RootFunctions(last.pre) :
                  last.pre[1].variables[n].Value.Value = call.function)
           => IF body.Variable \in DOMAIN ctx[1].variables
              THEN /\ call.err = NoError
                   /\ call.result.Type = ctx[1].variables[body.Variable].Value.Type
                   /\ call.result = ctx[1].variables[body.Variable].Value
              ELSE call.err = "UndefinedVariable"

\* C7: lowering is total over what the parser produces: no statement of a
\* parsed batch fails to lower with UnsupportedNode.
C7_Original == error # "UnsupportedNode"

\* name(args) with a function literal as name
CallsLiteral(s) ==
    /\ s.kind = "ExpressionStmt"
    /\ s.Expr.kind = "InvocationExpr"
    /\ s.Expr.Invoker.kind = "FuncDefExpr"

\* C8: lowering resolves an absent annotation to Any, for a var-definition
\* and for every parameter of a function literal.
C8_Original ==
    program # <<>>
    => /\ (/\ Current.kind = "VarDefStmt"
           /\ Current.Type = NoType
           /\ ~IsFailed(ExpressionToCommand(Current.Value)))
            => /\ ToCommand(Current).kind = "DefineVar"
               /\ ToCommand(Current).Type = AnyType
       /\ (/\ CallsLiteral(Current)
           /\ Current.Expr.Invoker.ReturnType # NoType
           /\ ~IsFailed(ToCommand(Current.Expr.Invoker.Statement)))
            => LET literal == Current.Expr.Invoker
                   lowered == ExpressionToCommand(literal)
               IN /\ ~IsFailed(lowered)
                  /\ \A i \in 1..Len(literal.Arguments) :
                        literal.Arguments[i].Type = NoType
                        => lowered.value.Value.Signature.Parameters[i].Type = AnyType

\* C9: a Block runs in a fresh child frame: after a block statement the
\* enclosing frame binds the same names as before it.
C9_Original ==
    (program # <<>> /\ Current.kind = "BlockStmt")
    => DOMAIN ctx[1].variables = DOMAIN last.pre[1].variables

\* the last statement was the member call receiver.member(argument)
MemberCalled ==
    /\ program # <<>>
    /\ Current.kind = "ExpressionStmt"
    /\ Current.Expr.kind = "InvocationExpr"
    /\ Current.Expr.Invoker.kind = "ContextExpr"
    /\ Len(Current.Expr.Args) = 1
Member == Current.Expr.Invoker.Variable.Identifier
\* the receiver and the argument as they evaluate in the Context before
\* the call
ReceiverBefore == Exec(ExpressionToCommand(Current.Expr.Invoker.Context), last.pre)
ArgumentBefore == Exec(ExpressionToCommand(Current.Expr.Args[1]), last.pre)
\* the calls of the statement that were handed a receiver
MemberCalls == {k \in 1..Len(last.calls) : last.calls[k].receiver # Nil}

\* C10: for a receiver Value whose Type registers f with one parameter x,
\* the member call receiver.f(v) runs exactly that table entry, once, in a
\* fresh frame binding x to v and, as the receiver, the receiver Value, and
\* the call yields the result of f's body; when the Type registers no such
\* member the call fails with UndefinedMember and no member function is run.
C10_Original ==
    (MemberCalled /\ ReceiverBefore.err = NoError /\ ReceiverBefore.val # Nil)
    => IF Member \in DOMAIN TypeFunctions(ReceiverBefore.val.Type)
       THEN /\ Cardinality(MemberCalls) = 1
            /\ \A k \in MemberCalls :
                  LET call == last.calls[k]
                  IN /\ call.receiver.Type = ReceiverBefore.val.Type
                     /\ call.receiver.Value = ReceiverBefore.val.Value
                     /\ call.function = TypeFunctions(ReceiverBefore.val.Type)[Member]
                     /\ DOMAIN call.parameters = {"x"}
                     /\ call.parameters["x"] = ArgumentBefore.val
                     /\ call.frame = Len(last.pre) + 1
                     /\ call.locals = <<>>
                     /\ call.err = error
                     /\ call.result = last.val
                     /\ ArgumentBefore.val.Type = IntType
                          => /\ status = "running"
                             /\ IsIntValue(results[Len(results)],
                                           ReceiverBefore.val.Value
                                           + ArgumentBefore.val.Value)
                     /\ ArgumentBefore.val.Type # IntType
                          => error = "OperandTypeError"
       ELSE /\ status = "aborted"
            /\ error = "UndefinedMember"
            /\ MemberCalls = {}

\* C11: one member call evaluates its receiver exactly once: the Context
\* after a successful call is the Context one evaluation of the receiver
\* leaves (the Int member f and a literal argument change nothing), and
\* the Value handed over as the receiver is the Value that evaluation gave,
\* the one whose Type the member was looked up in.
C11_Original ==
    (/\ MemberCalled
     /\ status = "running"
     /\ ReceiverBefore.err = NoError
     /\ ReceiverBefore.val # Nil)
    => /\ ctx = ReceiverBefore.ctx
       /\ \A k \in MemberCalls :
             /\ last.calls[k].receiver.Type = ReceiverBefore.val.Type
             /\ last.calls[k].receiver.Value = ReceiverBefore.val.Value

====
